---- MODULE Spec2Model ----
(***************************************************************************)
(* Model of memora-cli/src/ui.rs, the terminal rendering layer of the      *)
(* memora CLI.                                                             *)
(*                                                                         *)
(* Every function of ui.rs is a one-shot routine: it reads its arguments   *)
(* and writes lines to standard output.  The state is therefore the        *)
(* invocation under way (call), the lines it wrote (stdout, a sequence of  *)
(* lines, each line a sequence of text tokens in the order the format      *)
(* string emits them) and what it handed back to its caller (ret: unit, a  *)
(* boolean, an I/O error, or a panic that unwound the call).               *)
(*                                                                         *)
(* Colour (the colored crate's bright_*, bold, color) only wraps a token   *)
(* in ANSI escapes and is left out.  Glyphs outside ASCII are written by   *)
(* name: "FULL" is U+2588, "SHADE" is U+2593, "LIGHT" is U+2591, "ARROW"   *)
(* is U+2192, "HBAR" is U+2500, "VBAR" is U+2502, and so on.               *)
(***************************************************************************)
EXTENDS Integers, Sequences, FiniteSets, TLC

VARIABLES call, stdout, ret

vars == <<call, stdout, ret>>

-----------------------------------------------------------------------------
(* Generic helpers                                                         *)

\* Option<T>: None is the empty sequence, Some(v) is <<v>>.
None == <<>>

Some(v) == <<v>>

IsSome(o) == o # <<>>

Opt(S) == {None} \cup {Some(v) : v \in S}

\* str::repeat for a one-glyph string: n copies of the glyph.
Repeat(g, n) == [i \in 1..n |-> g]

Range(s) == {s[i] : i \in 1..Len(s)}

\* Number of occurrences of token g in line s.
Count(s, g) == Cardinality({i \in 1..Len(s) : s[i] = g})

\* Sequences over S of length at most n.
SeqUpTo(S, n) == UNION {[1..k -> S] : k \in 0..n}

Abs(x) == IF x < 0 THEN -x ELSE x

Max(a, b) == IF a >= b THEN a ELSE b

Min(a, b) == IF a <= b THEN a ELSE b

\* num/den (num >= 0, den > 0) rounded to the nearest integer, ties to even:
\* what {:.N} does with the exact value of a float.
RoundHalfEven(num, den) ==
    LET q == num \div den
        r == num % den
    IN  IF 2 * r > den THEN q + 1
        ELSE IF 2 * r < den THEN q
        ELSE IF q % 2 = 0 THEN q ELSE q + 1

Unit == [kind |-> "unit"]

\* The caller has not made its call yet.  The functions of ui.rs keep nothing
\* between calls, so a behaviour follows one invocation from entry to return.
Idle == call.op = "none"

Blank == <<>>

-----------------------------------------------------------------------------
(* print_section_header                                                    *)

\* println!(); println!("--- {} ---", title); println!();
\* title is passed as the tokens format! builds it from.
SectionHeaderLines(title) ==
    << Blank, <<"HEAVY3", " ">> \o title \o <<" ", "HEAVY3">>, Blank >>

-----------------------------------------------------------------------------
(* print_fact                                                              *)

Dates == {"2024-01-01", "2024-06-30"}

\* activation and total_time are floats; the model draws them from the
\* eighths, which are exact in binary, so {:.2} rounds their exact decimal value.
Eighths == 2 * 2 * 2

Activations == {1, 5, 6}

FactTypes == {"world", "agent", "opinion", "note"}

Facts ==
    [ fact_type      : Opt(FactTypes),
      activation     : Opt(Activations),
      text           : {"text"},
      context        : Opt({"ctx"}),
      occurred_start : Opt(Dates),
      occurred_end   : Opt(Dates),
      event_date     : Opt(Dates),
      mentioned_at   : Opt({"2024-07-01"}),
      document_id    : Opt({"doc-1"}) ]

\* fact.fact_type.as_deref().unwrap_or("unknown")
FactTypeOf(fact) ==
    IF IsSome(fact.fact_type) THEN fact.fact_type[1] ELSE "unknown"

Prefix(fact_type) ==
    CASE fact_type = "world"   -> "GLOBE"
      [] fact_type = "agent"   -> "ROBOT"
      [] fact_type = "opinion" -> "THOUGHT"
      [] OTHER                 -> "MEMO"

\* str::to_uppercase on the type strings of the model.
ToUppercase(s) ==
    CASE s = "world"   -> "WORLD"
      [] s = "agent"   -> "AGENT"
      [] s = "opinion" -> "OPINION"
      [] s = "note"    -> "NOTE"
      [] s = "unknown" -> "UNKNOWN"
      [] OTHER         -> s

\* format!("{:.2}", activation): two decimals of n/Eighths.
Format2(n) ==
    LET h == RoundHalfEven(n * 100, Eighths)
        frac == h % 100
    IN  <<ToString(h \div 100), ".", ToString(frac \div 10), ToString(frac % 10)>>

\* The first line: icon, type tag and, when asked for and present, the activation.
TagLine(fact, show_activation) ==
    <<Prefix(FactTypeOf(fact)), " ", "[", ToUppercase(FactTypeOf(fact)), "]">>
    \o (IF show_activation /\ IsSome(fact.activation)
        THEN <<" ", "(">> \o Format2(fact.activation[1]) \o <<")">>
        ELSE <<>>)

MetaLine(label, value) == <<"  ", label, ": ", value>>

ContextLines(fact) ==
    IF IsSome(fact.context) THEN <<MetaLine("Context", fact.context[1])>> ELSE <<>>

\* A mutant of TemporalLines: a point event is printed as a range.
TemporalLinesNoPoint(fact) ==
    IF IsSome(fact.occurred_start)
    THEN IF IsSome(fact.occurred_end)
         THEN << <<"  ", "Occurred", ": ", fact.occurred_start[1], " to ", fact.occurred_end[1]>> >>
         ELSE << MetaLine("Occurred", fact.occurred_start[1]) >>
    ELSE IF IsSome(fact.event_date)
         THEN << MetaLine("Date", fact.event_date[1]) >>
         ELSE <<>>

\* occurred_start decides: with it, the point or the range form (or the start
\* alone when there is no end); without it, the legacy event_date, if any.
TemporalLines(fact) ==
    IF IsSome(fact.occurred_start)
    THEN IF IsSome(fact.occurred_end)
         THEN IF fact.occurred_start[1] = fact.occurred_end[1]
              THEN << MetaLine("Occurred", fact.occurred_start[1]) >>
              ELSE << <<"  ", "Occurred", ": ", fact.occurred_start[1], " to ", fact.occurred_end[1]>> >>
         ELSE << MetaLine("Occurred", fact.occurred_start[1]) >>
    ELSE IF IsSome(fact.event_date)
         THEN << MetaLine("Date", fact.event_date[1]) >>
         ELSE <<>>

MentionedLines(fact) ==
    IF IsSome(fact.mentioned_at)
    THEN <<MetaLine("Mentioned", fact.mentioned_at[1])>> ELSE <<>>

DocumentLines(fact) ==
    IF IsSome(fact.document_id)
    THEN <<MetaLine("Document", fact.document_id[1])>> ELSE <<>>

\* Everything print_fact writes.
FactLines(fact, show_activation) ==
    << TagLine(fact, show_activation), <<"  ", fact.text>> >>
    \o ContextLines(fact)
    \o TemporalLines(fact)
    \o MentionedLines(fact)
    \o DocumentLines(fact)
    \o << Blank >>

PrintFact ==
    /\ Idle
    /\ \E fact \in Facts, show_activation \in BOOLEAN :
        /\ call' = [op |-> "print_fact", fact |-> fact, show_activation |-> show_activation]
        /\ stdout' = FactLines(fact, show_activation)
        /\ ret' = Unit

-----------------------------------------------------------------------------
(* print_trace_info and print_search_results                               *)

TraceInfos == [ total_time : Opt({3, 100}), activation_count : Opt({0, 7}) ]

TraceInfoLines(trace) ==
    SectionHeaderLines(<<"Trace Information">>)
    \o (IF IsSome(trace.total_time)
        THEN << <<"  ", "STOPWATCH", "  Total time: ">> \o Format2(trace.total_time[1]) \o <<"ms">> >>
        ELSE <<>>)
    \o (IF IsSome(trace.activation_count)
        THEN << <<"  ", "CHART", " Activation count: ", ToString(trace.activation_count[1])>> >>
        ELSE <<>>)
    \o << Blank >>

MaxResults == 2

\* The facts of a search response: the temporal fields and the activation vary.
SearchFacts ==
    {f \in Facts : /\ f.fact_type = Some("world")
                   /\ f.context = None
                   /\ f.occurred_start \in {None, Some("2024-01-01")}
                   /\ f.occurred_end = f.occurred_start
                   /\ f.event_date \in {None, Some("2024-06-30")}
                   /\ f.activation \in {None, Some(5)}
                   /\ f.mentioned_at = None
                   /\ f.document_id = None}

SearchResponses ==
    [ results : SeqUpTo(SearchFacts, MaxResults), trace : Opt(TraceInfos) ]

RECURSIVE ResultLines(_, _)
\* for (i, fact) in results.iter().enumerate(), from index i on (1-based here,
\* so the number printed, i + 1 in the source, is the index itself).
ResultLines(results, i) ==
    IF i > Len(results) THEN <<>>
    ELSE << <<"  Result #", ToString(i)>> >>
         \o FactLines(results[i], TRUE)
         \o ResultLines(results, i + 1)

\* A mutant of SearchResultLines: the trace is printed whenever it is present.
SearchResultLinesAlwaysTrace(response, show_trace) ==
    SectionHeaderLines(<<"Search Results (", ToString(Len(response.results)), ")">>)
    \o (IF response.results = <<>>
        THEN << <<"  No results found.">> >>
        ELSE ResultLines(response.results, 1))
    \o (IF IsSome(response.trace) THEN TraceInfoLines(response.trace[1]) ELSE <<>>)

SearchResultLines(response, show_trace) ==
    SectionHeaderLines(<<"Search Results (", ToString(Len(response.results)), ")">>)
    \o (IF response.results = <<>>
        THEN << <<"  No results found.">> >>
        ELSE ResultLines(response.results, 1))
    \o (IF show_trace /\ IsSome(response.trace)
        THEN TraceInfoLines(response.trace[1])
        ELSE <<>>)

PrintSearchResults ==
    /\ Idle
    /\ \E response \in SearchResponses, show_trace \in BOOLEAN :
        /\ call' = [op |-> "print_search_results", response |-> response,
                    show_trace |-> show_trace]
        /\ stdout' = SearchResultLines(response, show_trace)
        /\ ret' = Unit

-----------------------------------------------------------------------------
(* Strings: a str is a sequence of characters; str::len and slicing work   *)
(* on its UTF-8 bytes.  The characters outside ASCII are written by name.  *)

\* char::len_utf8
Utf8Len(c) ==
    CASE c = "e_acute" -> 2
      [] c = "euro"    -> 3
      [] c = "grin"    -> 4
      [] OTHER         -> 1

RECURSIVE Encode(_)
\* str::as_bytes: byte k of character c is the pair <<c, k>>.
Encode(s) ==
    IF s = <<>> THEN <<>>
    ELSE [k \in 1..Utf8Len(Head(s)) |-> <<Head(s), k>>] \o Encode(Tail(s))

\* str::len: the length in bytes.
ByteLen(s) == Len(Encode(s))

\* str::chars().count(): what {:<width$} pads against.
CharCount(s) == Len(s)

-----------------------------------------------------------------------------
(* print_agents_table                                                      *)

MaxAgents == 2

MaxIdAscii == 10

MaxIdWide == 1

AgentIds ==
    {Repeat("a", n) \o w : n \in 0..MaxIdAscii, w \in SeqUpTo({"e_acute"}, MaxIdWide)}

AgentLists == SeqUpTo([agent_id : AgentIds], MaxAgents)

MinIdWidth == 8

RECURSIVE MaxIdLen(_)
\* agents.iter().map(|a| a.agent_id.len()).max(), for a non-empty list.
MaxIdLen(agents) ==
    IF Len(agents) = 1 THEN ByteLen(agents[1].agent_id)
    ELSE Max(ByteLen(Head(agents).agent_id), MaxIdLen(Tail(agents)))

\* A mutant of IdWidth: the width follows the first agent only.
IdWidthFirstOnly(agents) == Max(ByteLen(agents[1].agent_id), MinIdWidth)

IdWidth(agents) == Max(MaxIdLen(agents), MinIdWidth)

\* {:<width$}: left-aligned, padded with spaces up to width characters.
PadRight(s, width) == s \o Repeat(" ", Max(0, width - CharCount(s)))

Border(left, right, id_width) ==
    <<"  ", left>> \o Repeat("HBAR", id_width + 2) \o <<right>>

Row(cell, id_width) ==
    <<"  ", "VBAR", " ">> \o PadRight(cell, id_width) \o <<" ", "VBAR">>

AgentIdTitle == <<"A", "g", "e", "n", "t", " ", "I", "D">>

AgentsTableLines(agents) ==
    SectionHeaderLines(<<"Agents (", ToString(Len(agents)), ")">>)
    \o (IF agents = <<>>
        THEN << <<"  No agents found.">> >>
        ELSE LET id_width == IdWidth(agents)
             IN  << Border("TOPLEFT", "TOPRIGHT", id_width),
                    Row(AgentIdTitle, id_width),
                    Border("TEELEFT", "TEERIGHT", id_width) >>
                 \o [i \in 1..Len(agents) |-> Row(agents[i].agent_id, id_width)]
                 \o << Border("BOTTOMLEFT", "BOTTOMRIGHT", id_width), Blank >>)

PrintAgentsTable ==
    /\ Idle
    /\ \E agents \in AgentLists :
        /\ call' = [op |-> "print_agents_table", agents |-> agents]
        /\ stdout' = AgentsTableLines(agents)
        /\ ret' = Unit

-----------------------------------------------------------------------------
(* print_stored_memory                                                     *)

MaxAsciiPrefix == 62

MaxWide == 2

MaxSuffix == 4

WideChars == {"e_acute", "euro"}

\* The content strings of the model: ASCII, then at most MaxWide multi-byte
\* characters, then ASCII again, so that byte 57 falls before, inside and
\* after a multi-byte character.
Contents ==
    {Repeat("a", n) \o w \o Repeat("b", k) :
        n \in 0..MaxAsciiPrefix, w \in SeqUpTo(WideChars, MaxWide), k \in 0..MaxSuffix}

PreviewMax == 60

PreviewCut == 57

\* str::is_char_boundary(index) on the bytes of a str: the start, the end, or
\* the first byte of a character.
IsCharBoundary(bytes, index) ==
    \/ index = 0
    \/ index = Len(bytes)
    \/ index < Len(bytes) /\ bytes[index + 1][2] = 1

\* The characters of a byte slice that starts and ends on a boundary.
Decode(bytes) ==
    LET lead == SelectSeq(bytes, LAMBDA b : b[2] = 1)
    IN  [i \in 1..Len(lead) |-> lead[i][1]]

Panic(msg) == [kind |-> "panic", msg |-> msg]

\* let preview = if content.len() > 60 { format!("{}...", &content[..57]) }
\*               else { content.to_string() };
\* &content[..57] panics when byte 57 is not a character boundary.
Preview(content) ==
    LET bytes == Encode(content)
    IN  IF Len(bytes) > PreviewMax
        THEN IF IsCharBoundary(bytes, PreviewCut)
             THEN [ok |-> TRUE,
                   text |-> Decode(SubSeq(bytes, 1, PreviewCut)) \o <<".", ".", ".">>]
             ELSE [ok |-> FALSE, text |-> <<>>]
        ELSE [ok |-> TRUE, text |-> content]

StatusLine(is_async) ==
    IF is_async THEN <<"HOURGLASS", " Queued for background processing">>
    ELSE <<"CHECK", " Stored successfully">>

PrintStoredMemory ==
    /\ Idle
    /\ \E doc_id \in {"doc-1"}, content \in Contents, is_async \in BOOLEAN :
        LET preview == Preview(content)
            before  == << StatusLine(is_async), <<"  Document ID: ", doc_id>> >>
        IN  /\ call' = [op |-> "print_stored_memory", doc_id |-> doc_id,
                        content |-> content, is_async |-> is_async]
            /\ IF preview.ok
               THEN /\ stdout' = before \o << <<"  Content: ">> \o preview.text, Blank >>
                    /\ ret' = Unit
               ELSE /\ stdout' = before
                    /\ ret' = Panic("byte index 57 is not a char boundary")

-----------------------------------------------------------------------------
(* prompt_confirmation                                                     *)

MaxLineLen == 4

\* The characters typed, without the line terminator ("LF" is \n).
LineChars == {" ", "y", "Y", "e", "E", "s", "S", "n"}

\* What read_line appends to input: the line and its terminator, or the line
\* alone at end of input.
InputLines ==
    {body \o term : body \in SeqUpTo(LineChars, MaxLineLen), term \in {<<>>, <<"LF">>}}

IoErrors == {"BrokenPipe", "UnexpectedEof"}

\* char::is_whitespace
IsWhitespace(c) == c \in {" ", "LF", "CR", "TAB"}

RECURSIVE TrimStart(_)
TrimStart(s) ==
    IF s # <<>> /\ IsWhitespace(Head(s)) THEN TrimStart(Tail(s)) ELSE s

RECURSIVE TrimEnd(_)
TrimEnd(s) ==
    IF s # <<>> /\ IsWhitespace(s[Len(s)]) THEN TrimEnd(SubSeq(s, 1, Len(s) - 1)) ELSE s

\* A mutant of Trim: only the end is trimmed.
TrimEndOnly(s) == TrimEnd(s)

\* str::trim
Trim(s) == TrimEnd(TrimStart(s))

\* u8::to_ascii_lowercase on the characters of the model.
ToAsciiLowercase(c) ==
    CASE c = "Y" -> "y"
      [] c = "E" -> "e"
      [] c = "S" -> "s"
      [] OTHER   -> c

\* str::eq_ignore_ascii_case
EqIgnoreAsciiCase(a, b) ==
    /\ Len(a) = Len(b)
    /\ \A i \in 1..Len(a) : ToAsciiLowercase(a[i]) = ToAsciiLowercase(b[i])

\* Ok(input.trim().eq_ignore_ascii_case("y") || input.trim().eq_ignore_ascii_case("yes"))
Confirmed(input) ==
    \/ EqIgnoreAsciiCase(Trim(input), <<"y">>)
    \/ EqIgnoreAsciiCase(Trim(input), <<"y", "e", "s">>)

\* flush and read name what stdout().flush() and stdin().read_line() return:
\* None for Ok, Some(e) for Err(e).  The ? operator returns the first error;
\* read_line is not reached after a failed flush.  stdout holds what print!
\* wrote to the stream, flushed or not.
PromptConfirmation ==
    /\ Idle
    /\ \E message \in {"Delete?"}, flush \in Opt(IoErrors) :
        /\ stdout' = << <<"?", " ", message, " [y/N]: ">> >>
        /\ IF IsSome(flush)
           THEN /\ call' = [op |-> "prompt_confirmation", message |-> message,
                            flush |-> flush, read |-> None, input |-> <<>>]
                /\ ret' = [kind |-> "err", error |-> flush[1]]
           ELSE \/ \E e \in IoErrors :
                     /\ call' = [op |-> "prompt_confirmation", message |-> message,
                                 flush |-> None, read |-> Some(e), input |-> <<>>]
                     /\ ret' = [kind |-> "err", error |-> e]
                \/ \E input \in InputLines :
                     /\ call' = [op |-> "prompt_confirmation", message |-> message,
                                 flush |-> None, read |-> None, input |-> input]
                     /\ ret' = [kind |-> "ok", value |-> Confirmed(input)]

-----------------------------------------------------------------------------
(* print_profile and print_personality_delta                               *)
(*                                                                         *)
(* A trait or bias value is an f32.  The model draws it from the grid      *)
(* n / Scale with Scale a power of two: these values, their products with  *)
(* 40.0 and 100.0 and their differences are exact in f32, so the integer   *)
(* arithmetic below is the f32 arithmetic of the source.  The value n      *)
(* stands for n / Scale; the grid runs from below 0.0 to above 1.0.        *)

GridBits == 7

Scale == 2 ^ GridBits

\* Grid steps below 0.0 and above 1.0.
Under == 2

Over == 6

TraitValues == (0 - Under)..(Scale + Over)

BarLength == 40

PatternMax == 3

LabelWidth == 20

ChangeThresholdPercent == 1

\* A mutant of Filled: round to nearest instead of truncating.
FilledRounded(value) ==
    IF value <= 0 THEN 0 ELSE RoundHalfEven(value * BarLength, Scale)

\* (value * bar_length as f32) as usize: the float-to-integer cast truncates
\* toward zero and saturates, so a negative product gives 0.
Filled(value) ==
    IF value <= 0 THEN 0 ELSE (value * BarLength) \div Scale

\* let empty = bar_length - filled, on usize.  With filled > bar_length the
\* subtraction overflows: a build with overflow checks (debug) panics here; a
\* build without them (release) wraps to 2^64 - deficit.
Empty(filled, build) ==
    IF filled <= BarLength
    THEN [ok |-> TRUE, wrapped |-> FALSE, n |-> BarLength - filled]
    ELSE IF build = "debug"
         THEN [ok |-> FALSE, wrapped |-> FALSE, n |-> 0]
         ELSE [ok |-> TRUE, wrapped |-> TRUE, n |-> filled - BarLength]

\* "LIGHT".repeat(empty): str::repeat computes len * n with checked_mul and
\* panics with "capacity overflow"; three bytes times 2^64 - deficit
\* overflows for every deficit the model reaches.
RepeatEmpty(empty) ==
    IF empty.wrapped THEN [ok |-> FALSE, glyphs |-> <<>>]
    ELSE [ok |-> TRUE, glyphs |-> Repeat("LIGHT", empty.n)]

\* format!("{}{}", FULL.repeat(filled), LIGHT.repeat(empty)), or the panic
\* that ends the call before the format.
PlainBar(value, build) ==
    LET filled == Filled(value)
        empty  == Empty(filled, build)
        tail   == RepeatEmpty(empty)
    IN  IF ~empty.ok THEN [ok |-> FALSE, msg |-> "attempt to subtract with overflow", glyphs |-> <<>>]
        ELSE IF ~tail.ok THEN [ok |-> FALSE, msg |-> "capacity overflow", glyphs |-> <<>>]
        ELSE [ok |-> TRUE, msg |-> "", glyphs |-> Repeat("FULL", filled) \o tail.glyphs]

\* A mutant of HasChange: the sign of the change is not dropped.
HasChangeSigned(old_value, new_value) ==
    (new_value - old_value) * 100 >= ChangeThresholdPercent * Scale

\* let delta = new_value - old_value; delta.abs() >= 0.01
HasChange(old_value, new_value) ==
    Abs(new_value - old_value) * 100 >= ChangeThresholdPercent * Scale

\* The bar of print_personality_delta: with a change, the last
\* filled.min(3) filled cells are drawn as SHADE.
DeltaBar(old_value, new_value, build) ==
    LET filled == Filled(new_value)
        empty  == Empty(filled, build)
        tail   == RepeatEmpty(empty)
        pattern_filled == Min(filled, PatternMax)
    IN  IF ~empty.ok THEN [ok |-> FALSE, msg |-> "attempt to subtract with overflow", glyphs |-> <<>>]
        ELSE IF HasChange(old_value, new_value)
        THEN IF ~tail.ok THEN [ok |-> FALSE, msg |-> "capacity overflow", glyphs |-> <<>>]
             ELSE [ok |-> TRUE, msg |-> "",
                   glyphs |-> Repeat("FULL", filled - pattern_filled)
                              \o Repeat("SHADE", pattern_filled) \o tail.glyphs]
        ELSE IF ~tail.ok THEN [ok |-> FALSE, msg |-> "capacity overflow", glyphs |-> <<>>]
             ELSE [ok |-> TRUE, msg |-> "", glyphs |-> Repeat("FULL", filled) \o tail.glyphs]

\* format!("{:.0}", value * 100.0): the nearest integer, ties to even, with
\* the sign of a negative value kept.
Percent(value) ==
    IF value < 0 THEN <<"-", ToString(RoundHalfEven((0 - value) * 100, Scale))>>
    ELSE <<ToString(RoundHalfEven(value * 100, Scale))>>

\* {:<20} on a label.
Label(name) ==
    LET len == CASE name = "Openness" -> 8
                 [] name = "Conscientiousness" -> 17
                 [] name = "Extraversion" -> 12
                 [] name = "Agreeableness" -> 13
                 [] name = "Neuroticism" -> 11
                 [] name = "Personality Influence" -> 21
                 [] OTHER -> 0
    IN  <<name>> \o Repeat(" ", Max(0, LabelWidth - len))

TraitNames ==
    <<"Openness", "Conscientiousness", "Extraversion", "Agreeableness", "Neuroticism">>

TraitEmoji == <<"UNLOCK", "CLIPBOARD", "SPEAKING", "HANDSHAKE", "ANXIOUS">>

\* The traits array of both functions, in its order.
TraitValuesOf(p) ==
    <<p.openness, p.conscientiousness, p.extraversion, p.agreeableness, p.neuroticism>>

\* The personalities of the model: the six values step from base by stride.
Personality(base, stride) ==
    [ openness          |-> base,
      conscientiousness |-> base + stride,
      extraversion      |-> base + 2 * stride,
      agreeableness     |-> base + 3 * stride,
      neuroticism       |-> base + 4 * stride,
      bias_strength     |-> base + 5 * stride ]

Strides == {-1, 0, 1}

Personalities == {Personality(base, stride) : base \in TraitValues, stride \in Strides}

Builds == {"debug", "release"}

ProfileTraitLine(i, value, bar) ==
    <<"  ", TraitEmoji[i], " ">> \o Label(TraitNames[i]) \o <<" [">> \o bar
    \o <<"] ">> \o Percent(value) \o <<"%">>

RECURSIVE ProfileTraitLoop(_, _, _)
\* for (name, value, emoji, color) in &traits, from entry i on: the lines
\* written, and the panic that cut the loop short, if any.
ProfileTraitLoop(values, i, build) ==
    IF i > Len(values) THEN [lines |-> <<>>, ret |-> Unit]
    ELSE LET bar == PlainBar(values[i], build)
         IN  IF ~bar.ok THEN [lines |-> <<>>, ret |-> Panic(bar.msg)]
             ELSE LET rest == ProfileTraitLoop(values, i + 1, build)
                  IN  [lines |-> <<ProfileTraitLine(i, values[i], bar.glyphs)>> \o rest.lines,
                       ret |-> rest.ret]

Caption == <<"  ", "(how much personality shapes opinions)">>

Profiles ==
    [ agent_id    : {"agent-1"},
      name        : {"Ada"},
      background  : {<<>>, <<"line one">>, <<"line one", "line two">>},
      personality : Personalities ]

\* background is held as its lines(); it is empty when it has none.
ProfileLines(profile, build) ==
    LET head == SectionHeaderLines(<<"Agent Profile: ", profile.agent_id>>)
                \o << <<"Name:", " ", profile.name>>, Blank >>
                \o (IF profile.background # <<>>
                    THEN << <<"Background:">> >>
                         \o [i \in 1..Len(profile.background) |-> <<profile.background[i]>>]
                         \o << Blank >>
                    ELSE <<>>)
                \o << <<"--- Personality Traits ---">>, Blank >>
        loop == ProfileTraitLoop(TraitValuesOf(profile.personality), 1, build)
        bias == profile.personality.bias_strength
        bar  == PlainBar(bias, build)
    IN  IF loop.ret # Unit THEN [lines |-> head \o loop.lines, ret |-> loop.ret]
        ELSE IF ~bar.ok
        THEN [lines |-> head \o loop.lines \o << Blank, <<"Bias Strength:">> >>,
              ret |-> Panic(bar.msg)]
        ELSE [lines |-> head \o loop.lines
                        \o << Blank, <<"Bias Strength:">>,
                              <<"  ", "MUSCLE", " ">> \o Label("Personality Influence")
                              \o <<" [">> \o bar.glyphs \o <<"] ">> \o Percent(bias) \o <<"%">>,
                              Caption, Blank >>,
              ret |-> Unit]

PrintProfile ==
    /\ Idle
    /\ \E profile \in Profiles, build \in Builds :
        LET out == ProfileLines(profile, build)
        IN  /\ call' = [op |-> "print_profile", profile |-> profile, build |-> build]
            /\ stdout' = out.lines
            /\ ret' = out.ret

\* let delta_str = if has_change { format!(" -> {:.0}%", ..) } else { format!(" {:.0}%", ..) }
DeltaStr(old_value, new_value) ==
    IF HasChange(old_value, new_value)
    THEN <<" ", "ARROW", " ">> \o Percent(new_value) \o <<"%">>
    ELSE <<" ">> \o Percent(new_value) \o <<"%">>

DeltaTraitLine(i, old_value, new_value, bar) ==
    <<"  ", TraitEmoji[i], " ">> \o Label(TraitNames[i]) \o <<" [">> \o bar
    \o <<"]">> \o DeltaStr(old_value, new_value)

RECURSIVE DeltaTraitLoop(_, _, _, _)
\* for (name, old_value, new_value, emoji, color) in &traits, from entry i on.
DeltaTraitLoop(olds, news, i, build) ==
    IF i > Len(news) THEN [lines |-> <<>>, ret |-> Unit]
    ELSE LET bar == DeltaBar(olds[i], news[i], build)
         IN  IF ~bar.ok THEN [lines |-> <<>>, ret |-> Panic(bar.msg)]
             ELSE LET rest == DeltaTraitLoop(olds, news, i + 1, build)
                  IN  [lines |-> <<DeltaTraitLine(i, olds[i], news[i], bar.glyphs)>> \o rest.lines,
                       ret |-> rest.ret]

DeltaLines(old, new, build) ==
    LET head == << Blank, <<"--- Personality Changes ---">>, Blank >>
        loop == DeltaTraitLoop(TraitValuesOf(old), TraitValuesOf(new), 1, build)
        bar  == DeltaBar(old.bias_strength, new.bias_strength, build)
    IN  IF loop.ret # Unit THEN [lines |-> head \o loop.lines, ret |-> loop.ret]
        ELSE IF ~bar.ok
        THEN [lines |-> head \o loop.lines \o << Blank, <<"Bias Strength:">> >>,
              ret |-> Panic(bar.msg)]
        ELSE [lines |-> head \o loop.lines
                        \o << Blank, <<"Bias Strength:">>,
                              <<"  ", "MUSCLE", " ">> \o Label("Personality Influence")
                              \o <<" [">> \o bar.glyphs \o <<"]">>
                              \o DeltaStr(old.bias_strength, new.bias_strength),
                              Caption, Blank >>,
              ret |-> Unit]

\* The new values lie at most MaxShift grid steps from the old ones, on both
\* sides of the 0.01 threshold.
MaxShift == 3

PrintPersonalityDelta ==
    /\ Idle
    /\ \E base \in TraitValues, shift \in (0 - MaxShift)..MaxShift,
          old_stride \in Strides, new_stride \in Strides, build \in Builds :
        LET old == Personality(base, old_stride)
            new == Personality(base + shift, new_stride)
            out == DeltaLines(old, new, build)
        IN  /\ call' = [op |-> "print_personality_delta", old |-> old, new |-> new,
                        build |-> build]
            /\ stdout' = out.lines
            /\ ret' = out.ret

-----------------------------------------------------------------------------

Init ==
    /\ call = [op |-> "none"]
    /\ stdout = <<>>
    /\ ret = Unit

NextFact == PrintFact

SpecFact == Init /\ [][NextFact]_vars

NextSearch == PrintSearchResults

SpecSearch == Init /\ [][NextSearch]_vars

NextAgents == PrintAgentsTable

SpecAgents == Init /\ [][NextAgents]_vars

NextMemory == PrintStoredMemory

SpecMemory == Init /\ [][NextMemory]_vars

NextPrompt == PromptConfirmation

SpecPrompt == Init /\ [][NextPrompt]_vars

NextProfile == PrintProfile \/ PrintPersonalityDelta

SpecProfile == Init /\ [][NextProfile]_vars

-----------------------------------------------------------------------------
(* Properties                                                              *)

\* A metadata line of print_fact with this label is on stdout.
HasMeta(label) ==
    \E i \in 1..Len(stdout) :
        /\ Len(stdout[i]) >= 4
        /\ stdout[i][1] = "  "
        /\ stdout[i][2] = label
        /\ stdout[i][3] = ": "

MetaRank(label) ==
    CASE label = "Context"   -> 1
      [] label = "Occurred"  -> 2
      [] label = "Date"      -> 2
      [] label = "Mentioned" -> 3
      [] label = "Document"  -> 4
      [] OTHER               -> 0

\* The positions of the metadata lines of a print_fact call: after the tag and
\* the text, before the closing blank line.
MetaPositions == 3..(Len(stdout) - 1)

\* C1: print_fact prints the Context line iff context is present, a temporal
\* line iff one of occurred_start, occurred_end, event_date is present, the
\* Mentioned line iff mentioned_at is present and the Document line iff
\* document_id is present, and the printed lines come in the order context,
\* temporal, mentioned-at, document id.
C1_MetadataIffFieldPresent ==
    call.op = "print_fact" =>
        LET f == call.fact
        IN  /\ HasMeta("Context") <=> IsSome(f.context)
            /\ (HasMeta("Occurred") \/ HasMeta("Date"))
                 <=> (IsSome(f.occurred_start) \/ IsSome(f.occurred_end) \/ IsSome(f.event_date))
            /\ HasMeta("Mentioned") <=> IsSome(f.mentioned_at)
            /\ HasMeta("Document") <=> IsSome(f.document_id)
            /\ \A i, j \in MetaPositions :
                 i < j => MetaRank(stdout[i][2]) < MetaRank(stdout[j][2])

\* The temporal lines on stdout.
TemporalPositions ==
    {i \in 1..Len(stdout) :
        /\ Len(stdout[i]) >= 4
        /\ stdout[i][1] = "  "
        /\ stdout[i][2] \in {"Occurred", "Date"}}

OnStdout(line) == \E i \in 1..Len(stdout) : stdout[i] = line

\* C2: print_fact prints at most one temporal line: "Occurred: <start>" when
\* occurred_start and occurred_end are both set and equal, "Occurred: <start>
\* to <end>" when both are set and differ, and "Date: <event_date>" when both
\* are absent and event_date is present.
C2_TemporalForm ==
    call.op = "print_fact" =>
        LET f == call.fact
            both == IsSome(f.occurred_start) /\ IsSome(f.occurred_end)
        IN  /\ Cardinality(TemporalPositions) <= 1
            /\ (both /\ f.occurred_start = f.occurred_end)
                 => OnStdout(<<"  ", "Occurred", ": ", f.occurred_start[1]>>)
            /\ (both /\ f.occurred_start # f.occurred_end)
                 => OnStdout(<<"  ", "Occurred", ": ", f.occurred_start[1],
                               " to ", f.occurred_end[1]>>)
            /\ (f.occurred_start = None /\ f.occurred_end = None /\ IsSome(f.event_date))
                 => OnStdout(<<"  ", "Date", ": ", f.event_date[1]>>)

\* A range event was printed, beside an event_date that was not.
C2_Witness ==
    /\ call.op = "print_fact"
    /\ call.fact.occurred_start = Some("2024-01-01")
    /\ call.fact.occurred_end = Some("2024-06-30")
    /\ IsSome(call.fact.event_date)
    /\ OnStdout(<<"  ", "Occurred", ": ", "2024-01-01", " to ", "2024-06-30">>)
    /\ ~HasMeta("Date")

\* The spellings of "y" and "yes" in either case.
YesWords ==
    {<<y>> : y \in {"y", "Y"}}
    \cup {<<y, e, z>> : y \in {"y", "Y"}, e \in {"e", "E"}, z \in {"s", "S"}}

\* The line is a spelling of y or yes with only whitespace around it.
Affirmative(line) ==
    \E a \in 0..Len(line), b \in 0..Len(line) :
        /\ a <= b
        /\ \A i \in 1..a : line[i] \in {" ", "LF", "CR", "TAB"}
        /\ \A i \in (b + 1)..Len(line) : line[i] \in {" ", "LF", "CR", "TAB"}
        /\ SubSeq(line, a + 1, b) \in YesWords

\* C3: prompt_confirmation returns true iff the line read, trimmed and
\* compared without regard to case, is "y" or "yes"; any other line, the
\* empty one included, gives false; a failed flush or read returns that I/O
\* error and no boolean.
C3_ConfirmationResult ==
    call.op = "prompt_confirmation" =>
        /\ IsSome(call.flush) => ret = [kind |-> "err", error |-> call.flush[1]]
        /\ (call.flush = None /\ IsSome(call.read))
             => ret = [kind |-> "err", error |-> call.read[1]]
        /\ (call.flush = None /\ call.read = None)
             => /\ ret.kind = "ok"
                /\ ret.value <=> Affirmative(call.input)
                /\ call.input \in {<<>>, <<"LF">>} => ret.value = FALSE

\* " y " and its line terminator were read and taken as a yes.
C3_Witness ==
    /\ call.op = "prompt_confirmation"
    /\ call.input = <<" ", "y", " ", "LF">>
    /\ ret = [kind |-> "ok", value |-> TRUE]

\* The line print_stored_memory writes for the content, if it got that far.
ContentLine == IF Len(stdout) >= 3 THEN stdout[3] ELSE <<>>

Ellipsis == <<".", ".", ".">>

\* C4: the preview of print_stored_memory is content itself when content has
\* at most 60 characters, and its first 57 characters followed by "..." when
\* it has more.
C4_PreviewByLength ==
    call.op = "print_stored_memory" =>
        LET c == call.content
        IN  /\ ret = Unit
            /\ Len(c) <= PreviewMax => ContentLine = <<"  Content: ">> \o c
            /\ Len(c) > PreviewMax
                 => ContentLine = <<"  Content: ">> \o SubSeq(c, 1, PreviewCut) \o Ellipsis

\* C5: for every content, multi-byte characters included, print_stored_memory
\* completes and its preview is made of whole characters of content: content
\* itself, or a prefix of its characters followed by "...".
C5_TruncationOnCharBoundary ==
    call.op = "print_stored_memory" =>
        /\ ret = Unit
        /\ \/ ContentLine = <<"  Content: ">> \o call.content
           \/ \E k \in 0..Len(call.content) :
                ContentLine = <<"  Content: ">> \o SubSeq(call.content, 1, k) \o Ellipsis

\* The line of the bar labelled name: the fourth token of a bar line is its label.
BarLineOf(name) ==
    stdout[CHOOSE i \in 1..Len(stdout) : Len(stdout[i]) >= 4 /\ stdout[i][4] = name]

HasBarLine(name) ==
    \E i \in 1..Len(stdout) : Len(stdout[i]) >= 4 /\ stdout[i][4] = name

\* The cells of a bar line: the tokens between the brackets.
Cells(line) ==
    LET open  == CHOOSE i \in 1..Len(line) : line[i] = " ["
        close == CHOOSE i \in 1..Len(line) : line[i] \in {"] ", "]"}
    IN  SubSeq(line, open + 1, close - 1)

\* What follows the closing bracket.
AfterBar(line) ==
    LET close == CHOOSE i \in 1..Len(line) : line[i] \in {"] ", "]"}
    IN  SubSeq(line, close + 1, Len(line))

FilledCells(line) == Count(Cells(line), "FULL") + Count(Cells(line), "SHADE")

EmptyCells(line) == Count(Cells(line), "LIGHT")

BarNames == TraitNames \o <<"Personality Influence">>

\* The six values a call draws its bars from (the new ones, for a delta).
ShownValues ==
    LET p == IF call.op = "print_profile" THEN call.profile.personality ELSE call.new
    IN  TraitValuesOf(p) \o <<p.bias_strength>>

OldValues == TraitValuesOf(call.old) \o <<call.old.bias_strength>>

InUnitRange(values) == \A i \in 1..Len(values) : values[i] >= 0 /\ values[i] <= Scale

DrawsBars == call.op \in {"print_profile", "print_personality_delta"}

\* f32::round on value * 40: the nearest integer, ties away from zero.
RoundedCells(value) == (2 * value * BarLength + Scale) \div (2 * Scale)

\* C6 as stated: for values in [0,1], every bar of print_profile and of
\* print_personality_delta has round(value * 40) filled cells and 40 minus
\* that many empty cells.
C6_FilledIsRounded ==
    (DrawsBars /\ InUnitRange(ShownValues)) =>
        /\ ret = Unit
        /\ \A i \in 1..Len(BarNames) :
             /\ HasBarLine(BarNames[i])
             /\ FilledCells(BarLineOf(BarNames[i])) = RoundedCells(ShownValues[i])
             /\ EmptyCells(BarLineOf(BarNames[i])) = BarLength - RoundedCells(ShownValues[i])

\* C6 as amended: for values in [0,1], every bar of print_profile and of
\* print_personality_delta has floor(value * 40) filled cells (the product
\* truncated, not rounded) and 40 minus that many empty cells; 0.0 gives 0,
\* 0.5 gives 20 and 1.0 gives 40.
C6_FilledIsTruncated ==
    (DrawsBars /\ InUnitRange(ShownValues)) =>
        /\ ret = Unit
        /\ \A i \in 1..Len(BarNames) :
             LET value == ShownValues[i]
                 cells == (value * BarLength) \div Scale
             IN  /\ HasBarLine(BarNames[i])
                 /\ FilledCells(BarLineOf(BarNames[i])) = cells
                 /\ EmptyCells(BarLineOf(BarNames[i])) = BarLength - cells
                 /\ value = 0 => cells = 0
                 /\ 2 * value = Scale => cells = 20
                 /\ value = Scale => cells = 40

\* print_profile drew the bar of a value whose product with 40 has a fraction
\* above one half, and truncated it.
C6_Witness ==
    /\ call.op = "print_profile"
    /\ InUnitRange(ShownValues)
    /\ (ShownValues[1] * BarLength) % Scale > Scale \div 2
    /\ FilledCells(BarLineOf("Openness")) = (ShownValues[1] * BarLength) \div Scale
    /\ FilledCells(BarLineOf("Openness")) # RoundedCells(ShownValues[1])

\* |new - old| >= 0.01
Changed(i) == Abs(ShownValues[i] - OldValues[i]) * 100 >= Scale

\* C7: for each of the five traits and for the bias, print_personality_delta
\* marks the entry as changed iff |new - old| >= 0.01: a changed entry has the
\* arrow before its percentage and its last min(3, filled) filled cells in the
\* changed glyph; an unchanged entry has neither; either way the number of
\* filled cells comes from the new value alone.
C7_ChangeMarking ==
    (call.op = "print_personality_delta" /\ InUnitRange(ShownValues)) =>
        /\ ret = Unit
        /\ \A i \in 1..Len(BarNames) :
             /\ HasBarLine(BarNames[i])
             /\ LET line   == BarLineOf(BarNames[i])
                    filled == (ShownValues[i] * BarLength) \div Scale
                    marked == IF filled < 3 THEN filled ELSE 3
                IN  /\ Len(Cells(line)) = BarLength
                    /\ FilledCells(line) = filled
                    /\ Changed(i) =>
                         /\ Cells(line) = Repeat("FULL", filled - marked)
                                          \o Repeat("SHADE", marked)
                                          \o Repeat("LIGHT", BarLength - filled)
                         /\ SubSeq(AfterBar(line), 1, 3) = <<" ", "ARROW", " ">>
                    /\ ~Changed(i) =>
                         /\ Cells(line) = Repeat("FULL", filled)
                                          \o Repeat("LIGHT", BarLength - filled)
                         /\ "ARROW" \notin Range(line)
                         /\ "SHADE" \notin Range(line)
                    /\ line[Len(line)] = "%"

\* One call drew a trait that fell by 0.01 or more, with its arrow and three
\* changed cells, and a trait that moved by less, without.
C7_Witness ==
    /\ call.op = "print_personality_delta"
    /\ InUnitRange(ShownValues)
    /\ ShownValues[1] - OldValues[1] <= -2
    /\ "ARROW" \in Range(BarLineOf("Openness"))
    /\ Count(BarLineOf("Openness"), "SHADE") = 3
    /\ Abs(ShownValues[5] - OldValues[5]) = 1
    /\ "ARROW" \notin Range(BarLineOf("Neuroticism"))

BorderGlyphs ==
    {"HBAR", "VBAR", "TOPLEFT", "TOPRIGHT", "TEELEFT", "TEERIGHT", "BOTTOMLEFT", "BOTTOMRIGHT"}

\* max(8, longest agent_id length), the length being str::len.
ExpectedWidth(agents) ==
    CHOOSE w \in 8..(8 + 4 * (MaxIdAscii + MaxIdWide + 2)) :
        /\ \A i \in 1..Len(agents) : ByteLen(agents[i].agent_id) <= w
        /\ w = 8 \/ \E i \in 1..Len(agents) : ByteLen(agents[i].agent_id) = w

IsBorder(line, left, right, w) ==
    /\ Len(line) = w + 5
    /\ line[1] = "  "
    /\ line[2] = left
    /\ \A i \in 3..(w + 4) : line[i] = "HBAR"
    /\ line[w + 5] = right

\* A row whose cell is text, padded with spaces to w characters.
IsRow(line, text, w) ==
    /\ Len(line) = w + 5
    /\ SubSeq(line, 1, 3) = <<"  ", "VBAR", " ">>
    /\ SubSeq(line, 4, 3 + Len(text)) = text
    /\ \A i \in (4 + Len(text))..(w + 3) : line[i] = " "
    /\ SubSeq(line, w + 4, w + 5) = <<" ", "VBAR">>

\* C8: for a non-empty list, print_agents_table draws the borders, the header
\* and every row with the one column width max(8, longest agent_id length),
\* one row per agent in input order; for an empty list it prints "No agents
\* found." and neither a border character nor a row.
C8_AgentsTable ==
    call.op = "print_agents_table" =>
        LET agents == call.agents
            n == Len(agents)
        IN  IF n = 0
            THEN /\ Len(stdout) = 4
                 /\ stdout[4] = <<"  No agents found.">>
                 /\ \A i \in 1..Len(stdout) : Range(stdout[i]) \cap BorderGlyphs = {}
            ELSE LET w == ExpectedWidth(agents)
                 IN  /\ Len(stdout) = n + 8
                     /\ IsBorder(stdout[4], "TOPLEFT", "TOPRIGHT", w)
                     /\ IsRow(stdout[5], <<"A", "g", "e", "n", "t", " ", "I", "D">>, w)
                     /\ IsBorder(stdout[6], "TEELEFT", "TEERIGHT", w)
                     /\ \A i \in 1..n : IsRow(stdout[6 + i], agents[i].agent_id, w)
                     /\ IsBorder(stdout[n + 7], "BOTTOMLEFT", "BOTTOMRIGHT", w)
                     /\ \A i \in 1..Len(stdout) : stdout[i] # <<"  No agents found.">>

\* A table of two agents, the second id the longer one and longer than 8.
C8_Witness ==
    /\ call.op = "print_agents_table"
    /\ Len(call.agents) = 2
    /\ ByteLen(call.agents[2].agent_id) > 8
    /\ ByteLen(call.agents[1].agent_id) < ByteLen(call.agents[2].agent_id)
    /\ Len(stdout) = 10
    /\ Len(stdout[7]) = ByteLen(call.agents[2].agent_id) + 5

ResultMark(i) == <<"  Result #", ToString(i)>>

TraceTitle == <<"HEAVY3", " ", "Trace Information", " ", "HEAVY3">>

\* C9: print_search_results prints a section header with the result count;
\* with no results and show_trace false, that header and "No results found."
\* and nothing else; with results, for each fact in input order a "Result #i"
\* line numbered from 1 and then the fact rendered with activation shown; and
\* the trace block at the end iff show_trace is true and the trace is present.
C9_SearchResults ==
    call.op = "print_search_results" =>
        LET results == call.response.results
            n == Len(results)
            traced == call.show_trace /\ IsSome(call.response.trace)
            trace_lines == IF traced THEN TraceInfoLines(call.response.trace[1]) ELSE <<>>
            body_end == Len(stdout) - Len(trace_lines)
        IN  /\ Len(stdout) >= 4
            /\ SubSeq(stdout, 1, 3)
                 = << <<>>,
                      <<"HEAVY3", " ", "Search Results (", ToString(n), ")", " ", "HEAVY3">>,
                      <<>> >>
            /\ (n = 0 /\ ~call.show_trace)
                 => (Len(stdout) = 4 /\ stdout[4] = <<"  No results found.">>)
            /\ n = 0 => (body_end = 4 /\ stdout[4] = <<"  No results found.">>)
            /\ n > 0 =>
                 /\ stdout[4] = ResultMark(1)
                 /\ \A i \in 1..Len(stdout) : stdout[i] # <<"  No results found.">>
                 /\ \A i \in 1..n :
                      \E p \in 4..body_end :
                          LET fact_lines == FactLines(results[i], TRUE)
                              q == p + Len(fact_lines)
                          IN  /\ stdout[p] = ResultMark(i)
                              /\ q <= body_end
                              /\ SubSeq(stdout, p + 1, q) = fact_lines
                              /\ IF i < n THEN stdout[q + 1] = ResultMark(i + 1)
                                 ELSE q = body_end
            /\ OnStdout(TraceTitle) <=> traced
            /\ SubSeq(stdout, body_end + 1, Len(stdout)) = trace_lines

\* Two results were listed and the trace block was appended.
C9_Witness ==
    /\ call.op = "print_search_results"
    /\ Len(call.response.results) = 2
    /\ call.show_trace
    /\ IsSome(call.response.trace)
    /\ OnStdout(ResultMark(2))
    /\ OnStdout(TraceTitle)

\* C10: with a trait or bias value outside [0,1], print_profile and
\* print_personality_delta still complete: no value is rejected, the call does
\* not fail, and every bar is drawn, the only effect being a bar that is not
\* 40 cells wide.
C10_OutOfRangeCompletes ==
    (DrawsBars /\ ~InUnitRange(ShownValues)) =>
        /\ ret = Unit
        /\ \A i \in 1..Len(BarNames) : HasBarLine(BarNames[i])

====
